---- MODULE Spec2Model ----
(***************************************************************************)
(* Sandboxed execution engine (sandbox_manager.py) and idle scheduler      *)
(* (sandbox_autorun.py): the engine's run / runNamed calls, the project    *)
(* store, the pending queue with its approval workflow, and the polling    *)
(* loop that fires execution cycles once the system has been idle.         *)
(*                                                                         *)
(* Text is modelled by its length, file names by sequences of name parts,  *)
(* an optional value (Python's None or an absent key) by a sequence of     *)
(* length 0 or 1.  The environment of one engine call (which file-system   *)
(* operations fail, how long the child runs, how much it prints) is a      *)
(* record chosen nondeterministically by the calling action.               *)
(*                                                                         *)
(* Specifications: Spec (one loop thread, environment faults), SpecConfig  *)
(* (the same loop under configuration changes and a missing option),       *)
(* SpecThreads (several loop threads, with fairness), SpecApprove and      *)
(* SpecQueue (pending queue and approval), SpecEngine (direct engine       *)
(* calls in every environment), SpecStore (saving and running projects),   *)
(* SpecMixed (the loop with requests pending in the same directory).       *)
(***************************************************************************)
EXTENDS Integers, Sequences, FiniteSets, TLC

\* ------------------------------------------------------------------ bounds
\* The clock stops advancing here (seconds).
MaxClock == 6
\* Largest max_runs_per_cycle the configurations range over.
MaxRuns == 2
\* Environment faults (I/O failures, hanging children) injected per behaviour.
MaxFaults == 1

\* ------------------------------------------------------- program constants
\* run_code_snippet(code, timeout=7)
SnippetTimeout == 7
\* run_project_by_name(name, timeout=10)
ProjectTimeout == 10
\* result.get("output")[:10000]
LogCap == 10000

\* ----------------------------------------------------------------- helpers
Min(a, b) == IF a < b THEN a ELSE b

\* dict.get(k): the value wrapped in a sequence, <<>> for None / absent.
Get(r, k) == IF k \in DOMAIN r THEN <<r[k]>> ELSE <<>>

\* dict.get(k, default)
GetOr(r, k, d) == IF k \in DOMAIN r THEN r[k] ELSE d

Cnt(f, k) == IF k \in DOMAIN f THEN f[k] ELSE 0

Inc(f, k) == IF k \in DOMAIN f THEN [f EXCEPT ![k] = @ + 1] ELSE f @@ (k :> 1)

\* s[:n]
Take(s, n) == SubSeq(s, 1, Min(n, Len(s)))

\* ------------------------------------------------------ engine environment
\* One call's environment: does mkdtemp / reading the project / writing the
\* script / starting the process / writing the log / rmtree succeed, how
\* long the child runs (seconds) and how many characters it prints.
EnvOK == [mkdtemp |-> TRUE, read |-> TRUE, write |-> TRUE, spawn |-> TRUE,
          logwrite |-> TRUE, rmtree |-> TRUE, dur |-> 1, outlen |-> 3]

\* EnvOK with exactly one thing going wrong: a failing file-system
\* operation, or a child that outlives both timeouts.
SingleFaultEnvs ==
    { [EnvOK EXCEPT ![k] = FALSE] : k \in {"mkdtemp", "read", "write", "logwrite"} }
    \cup { [EnvOK EXCEPT !.dur = 11] }

\* Every environment: any combination of failures, durations and outputs.
AllEnvs ==
    [mkdtemp : BOOLEAN, read : BOOLEAN, write : BOOLEAN, spawn : BOOLEAN,
     logwrite : BOOLEAN, rmtree : BOOLEAN, dur : {1, 8, 11},
     outlen : {3, LogCap + 1}]

\* ------------------------------------------------------------------ engine
\* subprocess.run(cmd, stdout=PIPE, stderr=STDOUT, timeout=timeout, ...):
\* raises OSError when the process cannot be started; on expiry of the
\* timeout kills the child, waits for it and raises TimeoutExpired;
\* otherwise returns the merged output.  child = children of this call
\* still running when it returns.
SubprocessRun(e, timeout) ==
    IF ~e.spawn THEN [exc |-> "oserror", out |-> 0, child |-> 0]
    ELSE IF e.dur > timeout THEN [exc |-> "timeout", out |-> 0, child |-> 0]
    ELSE [exc |-> "none", out |-> e.outlen, child |-> 0]

\* The try / except part shared by both entry points: the result dict.
TryResult(e, timeout, scriptWritten) ==
    IF ~scriptWritten THEN [ok |-> FALSE, error |-> "oserror", output |-> 0]
    ELSE LET p == SubprocessRun(e, timeout) IN
         CASE p.exc = "none" -> [ok |-> TRUE, output |-> p.out, elapsed |-> e.dur]
           [] p.exc = "timeout" -> [ok |-> FALSE, error |-> "timeout", output |-> 0]
           [] OTHER -> [ok |-> FALSE, error |-> p.exc, output |-> 0]

\* The log record built in the finally block.
LogData(kind, result) ==
    [type |-> kind,
     ok |-> GetOr(result, "ok", FALSE),
     error |-> Get(result, "error"),
     elapsed |-> Get(result, "elapsed"),
     output |-> Min(result.output, LogCap)]

\* An outcome of an engine call: raised or returned, the result returned,
\* the log records written, temp directories and children left behind.
Raised(logs_, tmp_, child_) ==
    [raised |-> TRUE, result |-> <<>>, logs |-> logs_, tmp |-> tmp_, child |-> child_]

Returned(r, logs_, tmp_, child_) ==
    [raised |-> FALSE, result |-> <<r>>, logs |-> logs_, tmp |-> tmp_, child |-> child_]

\* run_code_snippet(code, timeout)
run_code_snippet(e, timeout) ==
    IF ~e.mkdtemp THEN Raised(<<>>, 0, 0)
    ELSE LET result == TryResult(e, timeout, e.write)
             child_ == IF e.write THEN SubprocessRun(e, timeout).child ELSE 0
             logs_ == IF e.logwrite THEN <<LogData("snippet", result)>> ELSE <<>>
             tmp_ == IF e.rmtree THEN 0 ELSE 1
         IN Returned(result, logs_, tmp_, child_)

\* run_project_by_name(name, timeout) against the approved store `store`
\* (a sequence of file names); safe = os.path.basename(name).
run_project_by_name(store, safe, e, timeout) ==
    IF \A i \in DOMAIN store : store[i] # safe
    THEN Returned([ok |-> FALSE, error |-> "not found"], <<>>, 0, 0)
    ELSE IF ~e.read THEN Raised(<<>>, 0, 0)
    ELSE IF ~e.mkdtemp THEN Raised(<<>>, 0, 0)
    ELSE IF ~e.write THEN Raised(<<>>, 1, 0)
    ELSE LET result == TryResult(e, timeout, TRUE)
             child_ == SubprocessRun(e, timeout).child
         IN IF ~e.logwrite THEN Raised(<<>>, 1, child_)
            ELSE Returned(result, <<LogData("project", result)>>,
                          IF e.rmtree THEN 0 ELSE 1, child_)

\* ------------------------------------------------------------------- state
VARIABLES
    cfg,               \* AUTORUN_CONFIG
    clock,             \* time.time(), whole seconds
    last_activity_ts,  \* _state["last_activity_ts"]
    running,           \* _state["running"]
    pc,                \* where the loop thread is
    wake,              \* when the current time.sleep ends
    runs,              \* the cycle's local `runs`
    todo,              \* what is left of the cycle's sliced list
    tasks,             \* autotask_<ts>.py files in the pending directory
    tsLast,            \* the last millisecond stamp a task was named by
    files,             \* the approved store, most recently modified first
    logs,              \* the log directory, in order of writing
    tmpdirs,           \* temp directories left on disk
    children,          \* child processes still running
    faults,            \* environment faults injected so far
    calls,             \* engine invocations made by the current cycle
    attempted,         \* per file name: engine calls the scheduler made on it
    executed,          \* per file name: engine calls that returned a result
    deleted,           \* per file name: unlinks of the file by the scheduler
    generated,         \* task files written by the Task Generator
    initTasks,         \* the tasks pending when the scheduler started
    branch,            \* the branch the latest poll took
    iter,              \* loop iterations begun
    stopIter,          \* <<iter>> at the first stop request on the running loop
    signalled,         \* <<time>> of the latest activity signal
    pendingCode,       \* request code files in the pending directory
    descriptors,       \* *.request.json files there: name -> content
    submitted,         \* per descriptor ever written: the request's name
    lastApprove,       \* <<the latest approve_request call>>
    lastRun,           \* <<the latest direct engine call>>
    reconfig,          \* <<the latest change of AUTORUN_CONFIG["enabled"]>>
    loops,             \* the loop threads start_autorun_thread has created
    saved              \* the names save_project has been called with

\* The scheduler's own state, the disk as the scheduler sees it, and the
\* bookkeeping the properties read.
ctl == <<cfg, clock, last_activity_ts, running, pc, wake, runs, todo>>
disk == <<tasks, tsLast, files, logs, tmpdirs, children>>
hist == <<faults, calls, attempted, executed, deleted, generated, initTasks,
          branch, iter, stopIter, signalled>>

\* What callers outside the single loop thread drive and see.
ext == <<reconfig, loops, saved>>

api == <<pendingCode, descriptors, submitted, lastApprove, lastRun, ext>>

vars == <<ctl, disk, hist, api>>

\* --------------------------------------------------------------- scheduler
\* File names of the approved store the model draws from.
AllNames == << <<"a", ".py">>, <<"b", ".py">>, <<"c", ".py">>,
               <<"d", ".py">>, <<"e", ".py">> >>

\* AUTORUN_CONFIG values the model ranges over.
Configs ==
    [enabled : BOOLEAN, idle_seconds : {5, 6}, loop_interval : {1, 2},
     task_mode : {"projects", "autotasks"}, max_runs_per_cycle : 0..MaxRuns,
     generate_tasks : BOOLEAN]

\* sorted(...) of a set of task stamps.
RECURSIVE Sorted(_)
Sorted(S) ==
    IF S = {} THEN <<>>
    ELSE LET m == CHOOSE x \in S : \A y \in S : x <= y
         IN <<m>> \o Sorted(S \ {m})

\* The <timestamp>_<uuid6> prefixes of successive submissions.
Stamps == <<"s1", "s2", "s3", "s4">>

\* f"autotask_{ts}.py"
TaskName(ts) == <<"autotask_", ToString(ts), ".py">>

\* The names in the pending directory: disposable tasks, request code files
\* and request descriptors.
PendingDir(tasks_, codes, descs) ==
    {TaskName(t) : t \in tasks_} \cup codes \cup DOMAIN descs

\* Mutant: every .py file of the directory is taken for a task.
GlobAutotasksAnyPy(dir) == {n \in dir : n[Len(n)] = ".py"}

\* PENDING_DIR.glob("autotask_*.py")
GlobAutotasks(dir) == {n \in dir : n[1] = "autotask_" /\ n[Len(n)] = ".py"}

\* sorted(...) of names that begin with a submission's timestamp: in the
\* order of the stamps, and x.py before x.py.request.json.
RECURSIVE SortedStamped(_)
SortedStamped(S) ==
    IF S = {} THEN <<>>
    ELSE LET key(n) == 10 * (CHOOSE i \in DOMAIN Stamps : Stamps[i] = n[1]) + Len(n)
             m == CHOOSE x \in S : \A y \in S : key(x) <= key(y)
         IN <<m>> \o SortedStamped(S \ {m})

\* sorted(...) of file names of the pending directory: the names that begin
\* with a timestamp (a digit) come before the autotask_<ts>.py names, and
\* these are in the order of their stamps ts (all of the same length).
SortedFiles(S, tasks_) ==
    LET stamps == Sorted({t \in tasks_ : TaskName(t) \in S})
    IN SortedStamped({n \in S : n[1] # "autotask_"})
       \o [i \in DOMAIN stamps |-> TaskName(stamps[i])]

\* Mutant: whatever the option says, the autotask branch is taken.
ModeAlwaysAutotasks(c) == "autotasks"

\* cfg["task_mode"]
Mode(c) == c.task_mode

\* list_projects(): the .py files of the store, most recently modified first.
list_projects(store) == SelectSeq(store, LAMBDA n : n[Len(n)] = ".py")

\* The environments a scheduler-driven engine call may meet: a fault only
\* while the behaviour's fault budget lasts.
SchedEnvs == IF faults < MaxFaults THEN {EnvOK} \cup SingleFaultEnvs ELSE {EnvOK}

FaultCount(e) == IF e = EnvOK THEN 0 ELSE 1

\* generate_autotask_file(), called at millisecond stamp ts: writes
\* autotask_<ts>.py (overwriting a file of the same name); a failed write is
\* logged and swallowed.
generate_autotask_file(pend, ts, writeOk) == IF writeOk THEN pend \cup {ts} ELSE pend

\* for _ in range(n): generate_autotask_file().  c[i].adv: the millisecond
\* clock has advanced since the previous call; c[i].ok: the write succeeds.
\* The first call of a cycle always sees a stamp no earlier task carries.
RECURSIVE GenLoop(_, _, _, _)
GenLoop(pend, ts, c, i) ==
    IF i > Len(c) THEN [tasks |-> pend, ts |-> ts]
    ELSE LET t == IF i = 1 \/ c[i].adv THEN ts + 1 ELSE ts
         IN GenLoop(generate_autotask_file(pend, t, c[i].ok), t, c, i + 1)

GenChoices(n) == [1..n -> [adv : BOOLEAN, ok : BOOLEAN]]

GenFaults(c) == Cardinality({i \in DOMAIN c : ~c[i].ok})

\* Mutant: the idle time compared with the poll interval instead.
NotIdleYetInterval(idle, c) == idle < c.loop_interval

\* Mutant: the threshold itself still counts as not idle.
NotIdleYetInclusive(idle, c) == idle <= c.idle_seconds

\* idle < cfg["idle_seconds"]
NotIdleYet(idle, c) == idle < c.idle_seconds

\* cfg["loop_interval"] raises KeyError when the option is missing.
SleepRaises(c) == "loop_interval" \notin DOMAIN c

\* time.sleep(cfg["loop_interval"]) at line 79 or 86, inside the try: a fault
\* is caught at line 136 and line 139 evaluates the same expression outside
\* any handler, which ends the thread; likewise line 139 after a cycle.
AfterSleepCall(c) == IF SleepRaises(c) THEN "dead" ELSE "sleep"

WakeTime(now, c, old) == IF SleepRaises(c) THEN old ELSE now + c.loop_interval

\* line 71: _state["running"] = True
LoopStart ==
    /\ pc = "start"
    /\ running' = TRUE
    /\ pc' = "top"
    /\ UNCHANGED <<api, cfg, clock, last_activity_ts, wake, runs, todo, disk, hist>>

\* Mutant: the loop never looks at the running flag.
WhileTestAlways(r) == TRUE

\* while _state["running"]
WhileTest(r) == r

\* line 74: the while test, and line 141 when it fails
WhileCheck ==
    /\ pc = "top"
    /\ pc' = IF WhileTest(running) THEN "body" ELSE "stopped"
    /\ iter' = IF WhileTest(running) THEN iter + 1 ELSE iter
    /\ UNCHANGED <<api, cfg, clock, last_activity_ts, running, wake, runs, todo, disk,
                   faults, calls, attempted, executed, deleted, generated,
                   initTasks, branch, stopIter, signalled>>

\* Mutant: the disabled branch lacks its `continue` and falls into the cycle.
PollDisabledFallsThrough ==
    /\ pc = "body"
    /\ ~cfg.enabled
    /\ branch' = "disabled"
    /\ pc' = "cycle"
    /\ UNCHANGED <<api, cfg, clock, last_activity_ts, running, wake, runs, todo, disk,
                   faults, calls, attempted, executed, deleted, generated, initTasks,
                   iter, stopIter, signalled>>

\* lines 76-80: autorun disabled, sleep and continue
PollDisabled ==
    /\ pc = "body"
    /\ ~cfg.enabled
    /\ branch' = "disabled"
    /\ pc' = AfterSleepCall(cfg)
    /\ wake' = WakeTime(clock, cfg, wake)
    /\ UNCHANGED <<api, cfg, clock, last_activity_ts, running, runs, todo, disk, faults,
                   calls, attempted, executed, deleted, generated, initTasks,
                   iter, stopIter, signalled>>

\* lines 82-87: not idle yet, sleep and continue
PollWaiting ==
    /\ pc = "body"
    /\ cfg.enabled
    /\ NotIdleYet(clock - last_activity_ts, cfg)
    /\ branch' = "waiting"
    /\ pc' = AfterSleepCall(cfg)
    /\ wake' = WakeTime(clock, cfg, wake)
    /\ UNCHANGED <<api, cfg, clock, last_activity_ts, running, runs, todo, disk, faults,
                   calls, attempted, executed, deleted, generated, initTasks,
                   iter, stopIter, signalled>>

\* Mutant: the list is not sliced; only the break bounds the loop.
CycleSliceNoLimit(listed, c) == listed

\* pending_files[:max] / projects[:max]
CycleSlice(listed, c) == Take(listed, c.max_runs_per_cycle)

\* lines 89-96: a firing cycle begins in project mode
FireProjects ==
    /\ pc = "body"
    /\ cfg.enabled
    /\ ~NotIdleYet(clock - last_activity_ts, cfg)
    /\ Mode(cfg) = "projects"
    /\ branch' = "fire"
    /\ runs' = 0
    /\ calls' = 0
    /\ todo' = CycleSlice(list_projects(files), cfg)
    /\ pc' = "cycle"
    /\ UNCHANGED <<api, cfg, clock, last_activity_ts, running, wake, disk, faults,
                   attempted, executed, deleted, generated, initTasks, iter,
                   stopIter, signalled>>

\* Mutant: tasks are generated whether or not some are pending.
ShouldGenerateAlways(pend, c) == c.generate_tasks

\* if not pending_files and cfg.get("generate_tasks", False)
ShouldGenerate(pend, c) == pend = {} /\ c.generate_tasks

\* lines 89, 108-119: a firing cycle begins in autotask mode
FireAutotasks ==
    /\ pc = "body"
    /\ cfg.enabled
    /\ ~NotIdleYet(clock - last_activity_ts, cfg)
    /\ Mode(cfg) = "autotasks"
    /\ branch' = "fire"
    /\ runs' = 0
    /\ calls' = 0
    /\ \E c \in GenChoices(IF ShouldGenerate(GlobAutotasks(PendingDir(tasks, pendingCode,
                                                                      descriptors)), cfg)
                            THEN cfg.max_runs_per_cycle ELSE 0) :
          /\ faults + GenFaults(c) <= MaxFaults
          /\ LET g == GenLoop(tasks, tsLast, c, 1)
             IN /\ tasks' = g.tasks
                /\ tsLast' = g.ts
                /\ generated' = generated + Cardinality(g.tasks \ tasks)
                /\ todo' = CycleSlice(SortedFiles(GlobAutotasks(PendingDir(g.tasks,
                                          pendingCode, descriptors)), g.tasks), cfg)
          /\ faults' = faults + GenFaults(c)
    /\ pc' = "cycle"
    /\ UNCHANGED <<api, cfg, clock, last_activity_ts, running, wake, files, logs, tmpdirs,
                   children, attempted, executed, deleted, initTasks, iter,
                   stopIter, signalled>>

\* Mutant: the loop is left after the first pass, whatever its outcome.
RestBreakAlways(todo_, runs_, c) == <<>>

\* if runs >= cfg["max_runs_per_cycle"]: break
Rest(todo_, runs_, c) == IF runs_ >= c.max_runs_per_cycle THEN <<>> ELSE Tail(todo_)

\* lines 96-105: one pass of the project loop
RunProject ==
    /\ pc = "cycle"
    /\ Mode(cfg) = "projects"
    /\ todo # <<>>
    /\ \E e \in SchedEnvs :
         LET o == run_project_by_name(files, Head(todo), e, ProjectTimeout)
             r == IF o.raised THEN runs ELSE runs + 1
         IN /\ calls' = calls + 1
            /\ logs' = logs \o o.logs
            /\ tmpdirs' = tmpdirs + o.tmp
            /\ children' = children + o.child
            /\ faults' = faults + FaultCount(e)
            /\ runs' = r
            /\ todo' = Rest(todo, r, cfg)
    /\ UNCHANGED <<api, cfg, clock, last_activity_ts, running, pc, wake, tasks, tsLast,
                   files, attempted, executed, deleted, generated, initTasks,
                   branch, iter, stopIter, signalled>>

\* Mutant: the task file is left in place.
UnlinkSkipped(pend, f) == pend

\* f.unlink(missing_ok=True)
Unlink(pend, f) == pend \ {f}

\* lines 119-129: one pass of the autotask loop
RunAutotask ==
    /\ pc = "cycle"
    /\ Mode(cfg) = "autotasks"
    /\ todo # <<>>
    /\ \E e \in SchedEnvs :
         LET f == Head(todo)
             dir == PendingDir(tasks, pendingCode, descriptors)
             readOk == e.read /\ f \in dir
             o == run_code_snippet(e, SnippetTimeout)
             done == readOk /\ ~o.raised
             r == IF done THEN runs + 1 ELSE runs
             left == IF done THEN Unlink(dir, f) ELSE dir
         IN /\ calls' = IF readOk THEN calls + 1 ELSE calls
            /\ attempted' = IF readOk THEN Inc(attempted, f) ELSE attempted
            /\ executed' = IF done THEN Inc(executed, f) ELSE executed
            /\ logs' = IF readOk THEN logs \o o.logs ELSE logs
            /\ tmpdirs' = IF readOk THEN tmpdirs + o.tmp ELSE tmpdirs
            /\ children' = IF readOk THEN children + o.child ELSE children
            /\ tasks' = {t \in tasks : TaskName(t) \in left}
            /\ pendingCode' = pendingCode \cap left
            /\ descriptors' = [d \in DOMAIN descriptors \cap left |-> descriptors[d]]
            /\ deleted' = IF done /\ f \notin left THEN Inc(deleted, f) ELSE deleted
            /\ faults' = faults + FaultCount(e)
            /\ runs' = r
            /\ todo' = Rest(todo, r, cfg)
    /\ UNCHANGED <<submitted, lastApprove, lastRun, ext, cfg, clock, last_activity_ts,
                   running, pc, wake, tsLast, files, generated, initTasks, branch, iter,
                   stopIter, signalled>>

\* Mutant: the end of a cycle counts as activity and restarts the idle clock.
CycleEndResetsIdle ==
    /\ pc = "cycle"
    /\ todo = <<>>
    /\ pc' = AfterSleepCall(cfg)
    /\ wake' = WakeTime(clock, cfg, wake)
    /\ last_activity_ts' = clock
    /\ UNCHANGED <<api, cfg, clock, running, runs, todo, disk, hist>>

\* lines 131-139: the cycle's list is exhausted; time.sleep(loop_interval)
CycleEnd ==
    /\ pc = "cycle"
    /\ todo = <<>>
    /\ pc' = AfterSleepCall(cfg)
    /\ wake' = WakeTime(clock, cfg, wake)
    /\ UNCHANGED <<api, cfg, clock, last_activity_ts, running, runs, todo, disk, hist>>

\* One second passes while the loop sleeps.
Tick ==
    /\ pc = "sleep"
    /\ clock < wake
    /\ clock < MaxClock
    /\ clock' = clock + 1
    /\ UNCHANGED <<api, cfg, last_activity_ts, running, pc, wake, runs, todo, disk, hist>>

\* time.sleep returns; back to the while test
Wake ==
    /\ pc = "sleep"
    /\ clock >= wake
    /\ pc' = "top"
    /\ UNCHANGED <<api, cfg, clock, last_activity_ts, running, wake, runs, todo, disk, hist>>

\* _state["last_activity_ts"] = time.time()
ActivityStamp(now, old) == now

\* set_activity_now(), from any other thread
set_activity_now ==
    /\ last_activity_ts' = ActivityStamp(clock, last_activity_ts)
    /\ signalled' = <<clock>>
    /\ UNCHANGED <<api, cfg, clock, running, pc, wake, runs, todo, disk, faults, calls,
                   attempted, executed, deleted, generated, initTasks, branch,
                   iter, stopIter>>

\* stop_autorun(), from any other thread.  stopIter remembers the first
\* request that reaches a loop already running.
stop_autorun ==
    /\ running' = FALSE
    /\ stopIter' = IF stopIter = <<>> /\ pc \notin {"start", "stopped"}
                   THEN <<iter>> ELSE stopIter
    /\ UNCHANGED <<api, cfg, clock, last_activity_ts, pc, wake, runs, todo, disk, faults,
                   calls, attempted, executed, deleted, generated, initTasks,
                   branch, iter, signalled>>

\* The module has been imported and start_autorun_thread() has created the
\* loop thread, which has not run its first statement yet.
Init ==
    /\ cfg \in Configs
    /\ clock = 0
    /\ last_activity_ts = 0
    /\ running = TRUE
    /\ pc = "start"
    /\ wake = 0
    /\ runs = 0
    /\ todo = <<>>
    /\ tasks \in IF cfg.task_mode = "autotasks" THEN {{}, {1}, {1, 2}} ELSE {{1}}
    /\ tsLast = 2
    /\ files \in IF cfg.task_mode = "projects"
                 THEN {Take(AllNames, n) : n \in 0..(MaxRuns + 1)}
                 ELSE {Take(AllNames, 1)}
    /\ logs = <<>>
    /\ tmpdirs = 0
    /\ children = 0
    /\ faults = 0
    /\ calls = 0
    /\ attempted = <<>>
    /\ executed = <<>>
    /\ deleted = <<>>
    /\ generated = 0
    /\ initTasks = tasks
    /\ branch = "none"
    /\ iter = 0
    /\ stopIter = <<>>
    /\ signalled = <<>>
    /\ pendingCode = {}
    /\ descriptors = <<>>
    /\ submitted = <<>>
    /\ lastApprove = <<>>
    /\ lastRun = <<>>
    /\ reconfig = <<>>
    /\ loops = <<>>
    /\ saved = {}

Next ==
    \/ LoopStart
    \/ WhileCheck
    \/ PollDisabled
    \/ PollWaiting
    \/ FireProjects
    \/ FireAutotasks
    \/ RunProject
    \/ RunAutotask
    \/ CycleEnd
    \/ Tick
    \/ Wake
    \/ set_activity_now
    \/ stop_autorun

Spec == Init /\ [][Next]_vars

\* --------------------------------------------------- configuration changes
\* AUTORUN_CONFIG["enabled"] = v, from any other thread.  reconfig keeps the
\* value set, the branch the latest poll had taken and the iteration whose
\* poll is the next one to read the option.
set_enabled(v) ==
    /\ cfg.enabled # v
    /\ cfg' = [cfg EXCEPT !.enabled = v]
    /\ reconfig' = <<[to |-> v, was |-> branch,
                      next |-> IF pc = "body" THEN iter ELSE iter + 1]>>
    /\ UNCHANGED <<pendingCode, descriptors, submitted, lastApprove, lastRun, loops, saved,
                   clock, last_activity_ts, running, pc, wake, runs, todo, disk, hist>>

\* AUTORUN_CONFIG without its loop_interval option.
BrokenConfigs ==
    [enabled : BOOLEAN, idle_seconds : {5}, task_mode : {"projects", "autotasks"},
     max_runs_per_cycle : {1}, generate_tasks : BOOLEAN]

\* The scheduler under configurations that change or lack an option, in an
\* environment without faults (the fault budget starts used up).
InitConfig ==
    /\ cfg \in {c \in Configs : c.idle_seconds = 5} \cup BrokenConfigs
    /\ clock = 0
    /\ last_activity_ts = 0
    /\ running = TRUE
    /\ pc = "start"
    /\ wake = 0
    /\ runs = 0
    /\ todo = <<>>
    /\ tasks \in IF cfg.task_mode = "autotasks" THEN {{}, {1}} ELSE {{1}}
    /\ tsLast = 2
    /\ files = Take(AllNames, 2)
    /\ logs = <<>>
    /\ tmpdirs = 0
    /\ children = 0
    /\ faults = MaxFaults
    /\ calls = 0
    /\ attempted = <<>>
    /\ executed = <<>>
    /\ deleted = <<>>
    /\ generated = 0
    /\ initTasks = tasks
    /\ branch = "none"
    /\ iter = 0
    /\ stopIter = <<>>
    /\ signalled = <<>>
    /\ pendingCode = {}
    /\ descriptors = <<>>
    /\ submitted = <<>>
    /\ lastApprove = <<>>
    /\ lastRun = <<>>
    /\ reconfig = <<>>
    /\ loops = <<>>
    /\ saved = {}

NextConfig ==
    \/ Next
    \/ \E v \in BOOLEAN : set_enabled(v)

SpecConfig == InitConfig /\ [][NextConfig]_vars

\* ------------------------------------------------------------ loop threads
\* Threads start_autorun_thread() creates per behaviour.
MaxThreads == 2

\* Every call of start_autorun_thread() creates a thread of its own running
\* autorun_loop; all of them share AUTORUN_CONFIG, _state and the disk.
\* Here each thread is followed through the statements that matter to the
\* other threads: line 71, the while test, the poll, and each engine call
\* of a project-mode cycle from the start of its child to its return.
\* loops[t] is thread t's position, wake-up time and cycle locals.
others == <<cfg, last_activity_ts, pc, wake, runs, todo, tasks, tsLast, files, logs,
            tmpdirs, hist, pendingCode, descriptors, submitted, lastApprove,
            lastRun, reconfig, saved>>

\* t = threading.Thread(target=autorun_loop, daemon=True); t.start()
start_autorun_thread ==
    /\ Len(loops) < MaxThreads
    /\ loops' = Append(loops, [pc |-> "start", wake |-> 0, runs |-> 0, todo |-> <<>>])
    /\ UNCHANGED <<others, clock, running, children>>

\* line 71 in thread t
ThreadStart(t) ==
    /\ loops[t].pc = "start"
    /\ running' = TRUE
    /\ loops' = [loops EXCEPT ![t].pc = "top"]
    /\ UNCHANGED <<others, clock, children>>

\* line 74 in thread t, and line 141 when the test fails
ThreadWhile(t) ==
    /\ loops[t].pc = "top"
    /\ loops' = [loops EXCEPT ![t].pc = IF WhileTest(running) THEN "body" ELSE "stopped"]
    /\ UNCHANGED <<others, clock, running, children>>

\* lines 76-96 in thread t: sleep when disabled or not idle yet, else begin
\* a project-mode cycle
ThreadPoll(t) ==
    /\ loops[t].pc = "body"
    /\ loops' =
         IF ~cfg.enabled \/ NotIdleYet(clock - last_activity_ts, cfg)
         THEN [loops EXCEPT ![t].pc = "sleep", ![t].wake = clock + cfg.loop_interval]
         ELSE [loops EXCEPT ![t].pc = "cycle", ![t].runs = 0,
                            ![t].todo = CycleSlice(list_projects(files), cfg)]
    /\ UNCHANGED <<others, clock, running, children>>

\* line 100 in thread t: run_project_by_name has started its child
ThreadSpawn(t) ==
    /\ loops[t].pc = "cycle"
    /\ loops[t].todo # <<>>
    /\ children' = children + 1
    /\ loops' = [loops EXCEPT ![t].pc = "child"]
    /\ UNCHANGED <<others, clock, running>>

\* lines 100-105 in thread t: the child has ended, the call returns
ThreadReap(t) ==
    /\ loops[t].pc = "child"
    /\ children' = children - 1
    /\ loops' = [loops EXCEPT ![t].pc = "cycle", ![t].runs = @ + 1,
                              ![t].todo = Rest(@, loops[t].runs + 1, cfg)]
    /\ UNCHANGED <<others, clock, running>>

\* lines 131-139 in thread t
ThreadCycleEnd(t) ==
    /\ loops[t].pc = "cycle"
    /\ loops[t].todo = <<>>
    /\ loops' = [loops EXCEPT ![t].pc = "sleep", ![t].wake = clock + cfg.loop_interval]
    /\ UNCHANGED <<others, clock, running, children>>

\* time.sleep returns in thread t.  Once the clock has reached MaxClock it
\* is no longer followed, and sleeps simply end.
ThreadWake(t) ==
    /\ loops[t].pc = "sleep"
    /\ clock >= loops[t].wake \/ clock = MaxClock
    /\ loops' = [loops EXCEPT ![t].pc = "top"]
    /\ UNCHANGED <<others, clock, running, children>>

ThreadStep(t) ==
    \/ ThreadStart(t)
    \/ ThreadWhile(t)
    \/ ThreadPoll(t)
    \/ ThreadSpawn(t)
    \/ ThreadReap(t)
    \/ ThreadCycleEnd(t)
    \/ ThreadWake(t)

\* One second passes while some thread sleeps and none has overslept.
TickThreads ==
    /\ clock < MaxClock
    /\ \E t \in DOMAIN loops : loops[t].pc = "sleep"
    /\ \A t \in DOMAIN loops : loops[t].pc = "sleep" => clock < loops[t].wake
    /\ clock' = clock + 1
    /\ UNCHANGED <<others, loops, running, children>>

\* The module has been imported (line 26: running is True) and no loop
\* thread exists yet.
InitThreads ==
    /\ cfg \in [enabled : {TRUE}, idle_seconds : {0, 2}, loop_interval : {1},
                 task_mode : {"projects"}, max_runs_per_cycle : {1, 2},
                 generate_tasks : {FALSE}]
    /\ clock = 0
    /\ last_activity_ts = 0
    /\ running = TRUE
    /\ pc = "stopped"
    /\ wake = 0
    /\ runs = 0
    /\ todo = <<>>
    /\ tasks = {}
    /\ tsLast = 2
    /\ files = Take(AllNames, 2)
    /\ logs = <<>>
    /\ tmpdirs = 0
    /\ children = 0
    /\ faults = 0
    /\ calls = 0
    /\ attempted = <<>>
    /\ executed = <<>>
    /\ deleted = <<>>
    /\ generated = 0
    /\ initTasks = {}
    /\ branch = "none"
    /\ iter = 0
    /\ stopIter = <<>>
    /\ signalled = <<>>
    /\ pendingCode = {}
    /\ descriptors = <<>>
    /\ submitted = <<>>
    /\ lastApprove = <<>>
    /\ lastRun = <<>>
    /\ reconfig = <<>>
    /\ loops = <<>>
    /\ saved = {}

NextThreads ==
    \/ start_autorun_thread
    \/ \E t \in DOMAIN loops : ThreadStart(t)
    \/ \E t \in DOMAIN loops : ThreadWhile(t)
    \/ \E t \in DOMAIN loops : ThreadPoll(t)
    \/ \E t \in DOMAIN loops : ThreadSpawn(t)
    \/ \E t \in DOMAIN loops : ThreadReap(t)
    \/ \E t \in DOMAIN loops : ThreadCycleEnd(t)
    \/ \E t \in DOMAIN loops : ThreadWake(t)
    \/ TickThreads
    \/ stop_autorun

\* Every thread that can take a step eventually takes one, and time passes.
FairThreads ==
    /\ \A t \in 1..MaxThreads : WF_vars(t \in DOMAIN loops /\ ThreadStep(t))
    /\ WF_vars(TickThreads)

SpecThreads == InitThreads /\ [][NextThreads]_vars /\ FairThreads

\* ------------------------------------------------ pending queue, approval
\* Submissions made per behaviour.
MaxSubmits == 2

\* Request names the model submits: without and with the .py suffix.
RequestNames == { <<"a">>, <<"a", ".py">>, <<"b", ".py">> }

\* fname = f"{ts}_{uuid}_{name}", with ".py" appended unless it ends so.
PendingName(stamp, name) ==
    LET f == <<stamp, "_">> \o name
    IN IF f[Len(f)] = ".py" THEN f ELSE f \o <<".py">>

\* reqpath = PENDING_DIR / (fname + ".request.json")
DescriptorName(fname) == fname \o <<".request.json">>

\* A function without key k / with key k set to v.
Without(f, k) == [x \in DOMAIN f \ {k} |-> f[x]]

With(f, k, v) == [x \in DOMAIN f \cup {k} |-> IF x = k THEN v ELSE f[x]]

\* The scheduler part of the state, held still while the store, the queue
\* and the engine are driven directly (viewer.py, API callers).
SchedulerIdle ==
    /\ cfg = [enabled |-> FALSE, idle_seconds |-> 5, loop_interval |-> 1,
              task_mode |-> "autotasks", max_runs_per_cycle |-> 1,
              generate_tasks |-> TRUE]
    /\ clock = 0
    /\ last_activity_ts = 0
    /\ running = FALSE
    /\ pc = "stopped"
    /\ wake = 0
    /\ runs = 0
    /\ todo = <<>>
    /\ tasks = {}
    /\ tsLast = 2
    /\ faults = 0
    /\ calls = 0
    /\ attempted = <<>>
    /\ executed = <<>>
    /\ deleted = <<>>
    /\ generated = 0
    /\ initTasks = {}
    /\ branch = "none"
    /\ iter = 0
    /\ stopIter = <<>>
    /\ signalled = <<>>

sched == <<ctl, tasks, tsLast, hist>>

\* create_pending_request(name, code, reason): the code file and its
\* descriptor, which records the path of the code file.
create_pending_request(name) ==
    /\ Cardinality(DOMAIN submitted) < MaxSubmits
    /\ LET fname == PendingName(Stamps[Cardinality(DOMAIN submitted) + 1], name)
           d == DescriptorName(fname)
       IN /\ pendingCode' = pendingCode \cup {fname}
          /\ descriptors' = With(descriptors, d, [kind |-> "object", code_full_path |-> <<fname>>])
          /\ submitted' = With(submitted, d, name)
    /\ UNCHANGED <<ext, sched, files, logs, tmpdirs, children, lastApprove, lastRun>>

\* list_pending_requests(): the files of the pending directory `dir` named
\* *.request.json whose content parses (descs: the content of the
\* descriptors; a code or task file holds Python text, which does not).
list_pending_requests(dir, descs) ==
    {p \in dir : /\ p[Len(p)] = ".request.json"
                 /\ p \in DOMAIN descs
                 /\ descs[p].kind = "object"}

\* Mutant: the stamp prefix is dropped, leaving the request's name.
TargetNameBare(code_path) == SubSeq(code_path, 3, Len(code_path))

\* target = approved_dir / Path(code_path).name
TargetName(code_path) == code_path

\* shutil.move(code_path, target) as the store sees it: the file appears
\* (replacing one of the same name) at the place its modification time
\* gives it, here position i.
MoveIntoStore(store, target, i) ==
    LET rest == SelectSeq(store, LAMBDA n : n # target)
        k == Min(i, Len(rest))
    IN SubSeq(rest, 1, k) \o <<target>> \o SubSeq(rest, k + 1, Len(rest))

\* approve_request(request_file): what it returns or raises and what it
\* leaves on disk.  unlinkOk: removing the descriptor succeeds.
approve_request(d, descs, pend, store, unlinkOk, i) ==
    IF d \notin DOMAIN descs \/ descs[d].kind # "object"
    THEN [raised |-> FALSE, result |-> <<[ok |-> FALSE, error |-> "bad request file"]>>,
          descs |-> descs, pend |-> pend, store |-> store]
    ELSE IF descs[d].code_full_path = <<>>
    THEN [raised |-> TRUE, result |-> <<>>, descs |-> descs, pend |-> pend, store |-> store]
    ELSE LET code_path == descs[d].code_full_path[1] IN
         IF code_path \notin pend
         THEN [raised |-> FALSE, result |-> <<[ok |-> FALSE, error |-> "code file missing"]>>,
               descs |-> descs, pend |-> pend, store |-> store]
         ELSE [raised |-> FALSE,
               result |-> <<[ok |-> TRUE, approved_path |-> TargetName(code_path)]>>,
               descs |-> IF unlinkOk THEN Without(descs, d) ELSE descs,
               pend |-> pend \ {code_path},
               store |-> MoveIntoStore(store, TargetName(code_path), i)]

\* How the descriptor handed to approve_request looks to it.
DescriptorCase(d, descs, pend) ==
    IF d \notin DOMAIN descs THEN "missing"
    ELSE IF descs[d].kind # "object" THEN "unparsable"
    ELSE IF descs[d].code_full_path = <<>> THEN "nopath"
    ELSE IF descs[d].code_full_path[1] \notin pend THEN "dangling"
    ELSE "valid"

\* The reviewer approves descriptor d (viewer.py on_approve, or any caller).
Approve(d) ==
    \E unlinkOk \in BOOLEAN, i \in 0..Len(files) :
        LET o == approve_request(d, descriptors, pendingCode, files, unlinkOk, i)
        IN /\ descriptors' = o.descs
           /\ pendingCode' = o.pend
           /\ files' = o.store
           /\ lastApprove' =
                <<[d |-> d, case |-> DescriptorCase(d, descriptors, pendingCode),
                   raised |-> o.raised, result |-> o.result, unlinkOk |-> unlinkOk,
                   unchanged |-> (o.descs = descriptors /\ o.pend = pendingCode
                                  /\ o.store = files)]>>
           /\ UNCHANGED <<ext, sched, logs, tmpdirs, children, submitted, lastRun>>

\* A code file is deleted from the pending directory out-of-band.
DeleteCodeFile(f) ==
    /\ f \in pendingCode
    /\ pendingCode' = pendingCode \ {f}
    /\ UNCHANGED <<ext, sched, files, logs, tmpdirs, children, descriptors, submitted,
                   lastApprove, lastRun>>

\* A descriptor is rewritten out-of-band: as text that is no JSON, or as a
\* JSON object whose code_full_path is null or absent.
DamageDescriptor(d, content) ==
    /\ d \in DOMAIN descriptors
    /\ descriptors[d] # content
    /\ descriptors' = With(descriptors, d, content)
    /\ UNCHANGED <<ext, sched, files, logs, tmpdirs, children, pendingCode, submitted,
                   lastApprove, lastRun>>

DamagedContents == {[kind |-> "garbage"], [kind |-> "object", code_full_path |-> <<>>]}

InitApprove ==
    /\ SchedulerIdle
    /\ files \in {<<>>, <<AllNames[1]>>}
    /\ logs = <<>>
    /\ tmpdirs = 0
    /\ children = 0
    /\ pendingCode = {}
    /\ descriptors = <<>>
    /\ submitted = <<>>
    /\ lastApprove = <<>>
    /\ lastRun = <<>>
    /\ reconfig = <<>>
    /\ loops = <<>>
    /\ saved = {}

NextApprove ==
    \/ \E name \in RequestNames : create_pending_request(name)
    \/ \E d \in DOMAIN submitted : Approve(d)
    \/ \E f \in pendingCode : DeleteCodeFile(f)
    \/ \E d \in DOMAIN descriptors, c \in DamagedContents : DamageDescriptor(d, c)

SpecApprove == InitApprove /\ [][NextApprove]_vars

\* The queue driven through its own two operations only: requests are
\* submitted and approved, nothing touches the pending directory otherwise.
NextQueue ==
    \/ \E name \in RequestNames : create_pending_request(name)
    \/ \E d \in DOMAIN submitted : Approve(d)

SpecQueue == InitApprove /\ [][NextQueue]_vars

\* ------------------------------------------- scheduler and queue together
\* A request whose name looks like a disposable task's, submitted before the
\* loop thread was started.
EarlyRequest == <<"autotask_", "9", ".py">>

\* Request names submitted while the scheduler runs.
LateRequests == { <<"a">> }

\* The scheduler (no environment faults) with one request pending from the
\* start and further submissions.
InitMixed ==
    /\ cfg \in [enabled : BOOLEAN, idle_seconds : {5}, loop_interval : {1},
                 task_mode : {"projects", "autotasks"},
                 max_runs_per_cycle : 1..MaxRuns, generate_tasks : BOOLEAN]
    /\ clock = 0
    /\ last_activity_ts = 0
    /\ running = TRUE
    /\ pc = "start"
    /\ wake = 0
    /\ runs = 0
    /\ todo = <<>>
    /\ tasks \in {{}, {1}}
    /\ tsLast = 2
    /\ files = Take(AllNames, 1)
    /\ logs = <<>>
    /\ tmpdirs = 0
    /\ children = 0
    /\ faults = MaxFaults
    /\ calls = 0
    /\ attempted = <<>>
    /\ executed = <<>>
    /\ deleted = <<>>
    /\ generated = 0
    /\ initTasks = tasks
    /\ branch = "none"
    /\ iter = 0
    /\ stopIter = <<>>
    /\ signalled = <<>>
    /\ pendingCode = {PendingName(Stamps[1], EarlyRequest)}
    /\ descriptors = (DescriptorName(PendingName(Stamps[1], EarlyRequest)) :>
                        [kind |-> "object",
                         code_full_path |-> <<PendingName(Stamps[1], EarlyRequest)>>])
    /\ submitted = (DescriptorName(PendingName(Stamps[1], EarlyRequest)) :> EarlyRequest)
    /\ lastApprove = <<>>
    /\ lastRun = <<>>
    /\ reconfig = <<>>
    /\ loops = <<>>
    /\ saved = {}

NextMixed ==
    \/ Next
    \/ \E name \in LateRequests : create_pending_request(name)

SpecMixed == InitMixed /\ [][NextMixed]_vars

\* ------------------------------------------------- direct engine callers
\* Direct engine calls per behaviour.
MaxCalls == 2

\* os.path.basename(name): what follows the last "/".
RECURSIVE Basename(_)
Basename(name) ==
    IF \E i \in DOMAIN name : name[i] = "/"
    THEN Basename(Tail(name))
    ELSE name

\* Names handed to run_project_by_name.
CallNames == { <<"a", ".py">>, <<"b", ".py">>, <<"d", "/", "a", ".py">> }

\* The child was started and outlived the timeout.
ChildTimedOut(started, e, timeout) == started /\ e.spawn /\ e.dur > timeout

\* The record kept of a direct call: which entry point, the name it was
\* given (<<>> for a snippet) and whether save_project had been called
\* with that name, the environment it met, whether it raised, its result, whether its child timed out, the
\* children and temp directories it left behind, whether it created a temp
\* directory (created) and reached the log write (logTried), the outcome
\* the same call has when the log write succeeds (twin), and the log
\* directory as it was before the call.
CallRecord(entry, name_, e, o, twin, created_, logTried_, timedOut) ==
    [n |-> IF lastRun = <<>> THEN 1 ELSE lastRun[1].n + 1,
     api |-> entry, name |-> name_, wasSaved |-> name_ \in saved, env |-> e,
     raised |-> o.raised, result |-> o.result,
     timedOut |-> timedOut, child |-> o.child, tmp |-> o.tmp,
     created |-> created_, logTried |-> logTried_,
     twin |-> [raised |-> twin.raised, result |-> twin.result],
     prev |-> logs]

CallsLeft == IF lastRun = <<>> THEN TRUE ELSE lastRun[1].n < MaxCalls

\* The same environment with a log directory that can be written.
LogWritable(e) == [e EXCEPT !.logwrite = TRUE]

\* A caller invokes run_code_snippet(code) with the default timeout.
Run ==
    /\ CallsLeft
    /\ \E e \in AllEnvs :
         LET o == run_code_snippet(e, SnippetTimeout)
             twin == run_code_snippet(LogWritable(e), SnippetTimeout)
         IN /\ logs' = logs \o o.logs
            /\ tmpdirs' = tmpdirs + o.tmp
            /\ children' = children + o.child
            /\ lastRun' = <<CallRecord("run", <<>>, e, o, twin, e.mkdtemp, e.mkdtemp,
                             ChildTimedOut(e.mkdtemp /\ e.write, e, SnippetTimeout))>>
    /\ UNCHANGED <<ext, sched, files, pendingCode, descriptors, submitted, lastApprove>>

\* if not path.exists()
Exists(store, safe) == \E i \in DOMAIN store : store[i] = safe

\* A caller invokes run_project_by_name(name) with the default timeout, in
\* one of the environments envs.
RunNamedIn(name, envs) ==
    /\ CallsLeft
    /\ \E e \in envs :
         LET safe == Basename(name)
             o == run_project_by_name(files, safe, e, ProjectTimeout)
             twin == run_project_by_name(files, safe, LogWritable(e), ProjectTimeout)
             created_ == Exists(files, safe) /\ e.read /\ e.mkdtemp
         IN /\ logs' = logs \o o.logs
            /\ tmpdirs' = tmpdirs + o.tmp
            /\ children' = children + o.child
            /\ lastRun' = <<CallRecord("runNamed", name, e, o, twin, created_,
                             created_ /\ e.write,
                             ChildTimedOut(created_ /\ e.write, e, ProjectTimeout))>>
    /\ UNCHANGED <<ext, sched, files, pendingCode, descriptors, submitted, lastApprove>>

RunNamed(name) == RunNamedIn(name, AllEnvs)

InitEngine ==
    /\ SchedulerIdle
    /\ files \in {<<>>, <<AllNames[1]>>, <<AllNames[2], AllNames[1]>>}
    /\ logs = <<>>
    /\ tmpdirs = 0
    /\ children = 0
    /\ pendingCode = {}
    /\ descriptors = <<>>
    /\ submitted = <<>>
    /\ lastApprove = <<>>
    /\ lastRun = <<>>
    /\ reconfig = <<>>
    /\ loops = <<>>
    /\ saved = {}

NextEngine ==
    \/ Run
    \/ \E name \in CallNames : RunNamed(name)

SpecEngine == InitEngine /\ [][NextEngine]_vars

\* ----------------------------------------------------------- project store
\* Names handed to save_project and run_project_by_name: without and with
\* the .py suffix, without and with a directory component.
StoreNames ==
    { <<"a">>, <<"a", ".py">>, <<"d", "/", "b">>, <<"d", "/", "b", ".py">> }

\* safe = os.path.basename(filename), with ".py" appended unless it ends so
SaveName(name) ==
    LET safe == Basename(name)
    IN IF safe[Len(safe)] = ".py" THEN safe ELSE safe \o <<".py">>

\* save_project(filename, code): the file is written (replacing one of the
\* same name) and is the most recently modified of the store.
save_project(name) ==
    /\ files' = <<SaveName(name)>> \o SelectSeq(files, LAMBDA n : n # SaveName(name))
    /\ saved' = saved \cup {name}
    /\ UNCHANGED <<reconfig, loops, sched, logs, tmpdirs, children, pendingCode,
                   descriptors, submitted, lastApprove, lastRun>>

\* Projects are saved and run by name; the environment of the runs has no
\* fault.
NextStore ==
    \/ \E name \in StoreNames : save_project(name)
    \/ \E name \in StoreNames : RunNamedIn(name, {EnvOK})

SpecStore == InitEngine /\ [][NextStore]_vars

\* ------------------------------------------------------ scheduler properties
\* C1: in every firing cycle, in either mode and for every limit from 0 up,
\* the engine invocations made so far by the cycle number at most
\* max_runs_per_cycle.
C1_CycleCallsWithinLimit == calls <= cfg.max_runs_per_cycle

\* A project-mode cycle that had more projects listed than the limit has
\* ended having made exactly `limit` invocations.
C1_Witness ==
    /\ cfg.task_mode = "projects"
    /\ cfg.max_runs_per_cycle > 0
    /\ Len(list_projects(files)) > cfg.max_runs_per_cycle
    /\ branch = "fire"
    /\ pc = "sleep"
    /\ calls = cfg.max_runs_per_cycle

C7_NoFiringWithinIdleWindow ==
    [][(/\ pc = "body"
        /\ pc' # "body"
        /\ signalled # <<>>
        /\ clock < signalled[1] + cfg.idle_seconds)
       => (pc' = "sleep" /\ (cfg.enabled => branch' = "waiting"))]_vars

\* A poll that would have fired (idle since start for the whole threshold)
\* waited because of a later activity signal.
C7_Witness ==
    /\ signalled # <<>>
    /\ signalled[1] > 0
    /\ clock >= cfg.idle_seconds
    /\ clock < signalled[1] + cfg.idle_seconds
    /\ pc = "sleep"
    /\ wake = clock + cfg.loop_interval
    /\ branch = "waiting"

\* C8: once stop_autorun() has been called on the running loop no further
\* iteration begins: the iteration in progress is the last, so no firing
\* cycle begins after it, whatever activity signals arrive.
C8_NoIterationAfterStop == stopIter # <<>> => iter <= stopIter[1]

\* The loop has stopped after a stop request made during a firing iteration,
\* and an activity signal has been accepted since.
C8_Witness ==
    /\ pc = "stopped"
    /\ stopIter # <<>>
    /\ iter = stopIter[1]
    /\ branch = "fire"
    /\ calls > 0
    /\ signalled # <<>>
    /\ last_activity_ts = signalled[1]
    /\ last_activity_ts = clock

\* The scenario of C9: threshold 5 s, interval 1 s, limit 1, autotasks,
\* generation on, pending queue empty at the start, no activity signal and
\* no environment fault.
Scenario ==
    /\ cfg = [enabled |-> TRUE, idle_seconds |-> 5, loop_interval |-> 1,
              task_mode |-> "autotasks", max_runs_per_cycle |-> 1,
              generate_tasks |-> TRUE]
    /\ initTasks = {}
    /\ signalled = <<>>
    /\ faults = 0

\* Six seconds after the start: the six polls at 0..5 s are done and the
\* poll that follows the sleep ending at 6 s has not begun.
SixSecondMark == clock = 6 /\ iter = 6

\* C9: in the scenario, at the six-second mark exactly one task has been
\* generated, executed and deleted, and the log directory holds exactly one
\* record, of kind "snippet" with ok = true.
C9_ScenarioOneTask ==
    (Scenario /\ SixSecondMark) =>
        /\ generated = 1
        /\ tasks = {}
        /\ \E t \in 1..tsLast :
              /\ executed = (TaskName(t) :> 1)
              /\ deleted = (TaskName(t) :> 1)
        /\ Len(logs) = 1
        /\ logs[1].type = "snippet"
        /\ logs[1].ok = TRUE

C9_Witness == Scenario /\ SixSecondMark /\ pc = "top" /\ running

\* A project-mode firing cycle has ended.
ProjectCycleEnded ==
    /\ cfg.task_mode = "projects"
    /\ branch = "fire"
    /\ pc = "sleep"

\* C13 as stated: a failed attempt does not use up the per-cycle limit: a
\* project-mode cycle that had enough projects listed to make up for its
\* failed attempts ends with `limit` projects executed.
C13_FailedAttemptKeepsLimit ==
    (/\ ProjectCycleEnded
     /\ Len(list_projects(files)) >= cfg.max_runs_per_cycle + (calls - runs))
    => runs = cfg.max_runs_per_cycle

\* C13 amended: in a project-mode cycle every engine call that returns
\* (writing its log record) adds one to runs and a call that raises adds
\* nothing and is followed by the next project of the cycle's list; the
\* list being the first `limit` listed projects, failed attempts included,
\* the cycle attempts at most `limit` projects and completes at most
\* `limit` less the failed ones.
C13_FailedAttemptUsesSlot ==
    [][(cfg.task_mode = "projects" /\ pc = "cycle" /\ calls' = calls + 1) =>
        /\ runs' - runs = Len(logs') - Len(logs)
        /\ runs' = runs => todo' = Tail(todo)
        /\ calls' <= cfg.max_runs_per_cycle
        /\ runs' <= cfg.max_runs_per_cycle - (calls' - runs')]_vars

\* A cycle with limit 2 and three projects listed has ended after one
\* failed and one completed attempt.
C13_Witness ==
    /\ ProjectCycleEnded
    /\ cfg.max_runs_per_cycle = 2
    /\ Len(list_projects(files)) = 3
    /\ calls = 2
    /\ runs = 1

\* C19: the pending directory gains disposable tasks only in the step that
\* begins an autotask-mode firing cycle, only when it held none and
\* generate_tasks is on, at most max_runs_per_cycle of them, and before the
\* cycle has run anything; every other step, a cycle beginning with a task
\* pending or with generation off included, creates none.
C19_GenerationOnlyWhenEmpty ==
    [][\/ tasks' \subseteq tasks
       \/ /\ pc = "body"
          /\ pc' = "cycle"
          /\ cfg.task_mode = "autotasks"
          /\ tasks = {}
          /\ cfg.generate_tasks
          /\ Cardinality(tasks') <= cfg.max_runs_per_cycle
          /\ calls' = 0
          /\ attempted' = attempted]_vars

\* A cycle with limit 2 has begun by generating two tasks into an empty
\* pending directory and has run nothing yet.
C19_Witness ==
    /\ cfg.task_mode = "autotasks"
    /\ cfg.max_runs_per_cycle = 2
    /\ pc = "cycle"
    /\ calls = 0
    /\ initTasks = {}
    /\ generated = 2
    /\ Cardinality(tasks) = 2
    /\ Len(todo) = 2

\* C14 as stated: the loop thread ends only by the while test failing
\* after a stop request; no fault inside an iteration, a fault reading a
\* configuration option included, ends it.
C14_LoopEndsOnlyOnStop ==
    pc \in {"stopped", "dead"} => (pc = "stopped" /\ ~running)

C24_FiringRepeatsEveryPoll ==
    [][/\ signalled' = signalled => last_activity_ts' = last_activity_ts
       /\ (pc = "body" /\ pc' # "body" /\ branch = "fire" /\ cfg.enabled
           /\ signalled = <<>>)
          => (branch' = "fire" /\ pc' = "cycle")]_vars

\* The second of two firing cycles one poll interval apart has begun: the
\* first one, at the idle threshold, has left its log record.
C24_Witness ==
    /\ cfg.enabled
    /\ reconfig = <<>>
    /\ signalled = <<>>
    /\ ~SleepRaises(cfg)
    /\ cfg.loop_interval = 1
    /\ clock = cfg.idle_seconds + 1
    /\ branch = "fire"
    /\ pc = "cycle"
    /\ calls = 0
    /\ Len(logs) >= 1
    /\ running

\* The code file a descriptor was written for.
CodeOf(d) == SubSeq(d, 1, Len(d) - 1)

\* The files request submissions have put into the pending directory.
RequestFiles == DOMAIN submitted \cup {CodeOf(d) : d \in DOMAIN submitted}

\* C21: while no approval is made, only a submission changes the request
\* code files and descriptors of the pending directory; the scheduler never
\* runs or unlinks one of them, whatever the request is named; and
\* list_pending_requests() never returns a disposable task.
C21_PendingKindsNeverCross ==
    [][/\ \/ pendingCode' = pendingCode /\ descriptors' = descriptors
          \/ submitted' # submitted
       /\ (DOMAIN attempted' \cup DOMAIN deleted') \cap RequestFiles' = {}
       /\ list_pending_requests(PendingDir(tasks', pendingCode', descriptors'),
                                descriptors')
            \cap {TaskName(t) : t \in tasks'} = {}]_vars

\* An autotask-mode cycle has run and deleted a disposable task while the
\* request named like a task, pending since the start, is still there with
\* its descriptor and is the only entry listed.
C21_Witness ==
    /\ Mode(cfg) = "autotasks"
    /\ branch = "fire"
    /\ pc = "sleep"
    /\ runs >= 1
    /\ lastApprove = <<>>
    /\ PendingName(Stamps[1], EarlyRequest) \in pendingCode
    /\ list_pending_requests(PendingDir(tasks, pendingCode, descriptors), descriptors)
         = {DescriptorName(PendingName(Stamps[1], EarlyRequest))}
    /\ \E t \in 1..tsLast : Cnt(deleted, TaskName(t)) = 1

\* C22: a cycle of a scheduler configured for project mode leaves the
\* approved store and the whole pending directory as they are and runs
\* projects only; a cycle of one configured for autotask mode leaves the
\* approved store as it is and runs no project.
C22_OneModePerCycle ==
    [][/\ cfg.task_mode = "projects" =>
             /\ UNCHANGED <<files, tasks, pendingCode, descriptors, generated,
                            attempted, executed, deleted>>
             /\ \A i \in DOMAIN logs' : logs'[i].type = "project"
       /\ cfg.task_mode = "autotasks" =>
             /\ files' = files
             /\ \A i \in DOMAIN logs' : logs'[i].type = "snippet"]_vars

\* A project-mode cycle has run two projects with a disposable task pending.
C22_Witness ==
    /\ cfg.task_mode = "projects"
    /\ branch = "fire"
    /\ pc = "sleep"
    /\ runs = 2
    /\ Len(logs) = 2
    /\ tasks = {1}
    /\ Len(files) = 3

\* ------------------------------------------------------- thread properties
\* C15 as stated: whatever calls of start_autorun_thread and stop_autorun
\* are made, at most one child process started by the scheduler is running
\* at any moment.
C15_AtMostOneChild == children <= 1

\* Thread t has been created.
Created(t) == t \in DOMAIN loops

\* C18 as stated: after a stop request (the running flag is False) every
\* loop thread that exists, one that has not run its first statement yet
\* included, eventually reaches Stopped.
C18_StopEventuallyStops ==
    \A t \in 1..MaxThreads :
        (Created(t) /\ ~running) ~> (Created(t) /\ loops[t].pc = "stopped")

\* ------------------------------------------------------ approval properties
\* The latest approve_request call was handed a descriptor in this case.
ApprovedCase(c) == lastApprove # <<>> /\ lastApprove[1].case \in c

C4_BadRequestReturnedUntouched ==
    ApprovedCase({"missing", "unparsable", "nopath", "dangling"}) =>
        /\ ~lastApprove[1].raised
        /\ ~lastApprove[1].result[1].ok
        /\ lastApprove[1].unchanged

\* -------------------------------------------------------- engine properties
\* C5 as stated: every call of run and runNamed, whatever its outcome, adds
\* exactly one log record, whose ok, error and elapsed equal the returned
\* result's and whose output is the returned output capped at LogCap; the
\* records written before are unchanged.
C5_OneLogRecordPerCall ==
    lastRun # <<>> =>
        LET r == lastRun[1]
        IN /\ Len(logs) = Len(r.prev) + 1
           /\ SubSeq(logs, 1, Len(r.prev)) = r.prev
           /\ ~r.raised =>
                LET rec == logs[Len(logs)]
                    res == r.result[1]
                IN /\ rec.ok = res.ok
                   /\ rec.error = Get(res, "error")
                   /\ rec.elapsed = Get(res, "elapsed")
                   /\ rec.output = Min(GetOr(res, "output", 0), LogCap)

\* C6 as stated: when the child does not finish within the timeout, run and
\* runNamed return ok = false, error = "timeout" and no elapsed value, and
\* no child of the call is left running.
C6_TimeoutResultNoChild ==
    (lastRun # <<>> /\ lastRun[1].timedOut) =>
        /\ ~lastRun[1].raised
        /\ lastRun[1].result[1] = [ok |-> FALSE, error |-> "timeout", output |-> 0]
        /\ lastRun[1].child = 0
        /\ children = 0

\* C10 as stated: run and runNamed never raise; every call returns a result
\* carrying an ok flag.
C10_EngineNeverRaises ==
    lastRun # <<>> =>
        /\ ~lastRun[1].raised
        /\ "ok" \in DOMAIN lastRun[1].result[1]

\* C11 as stated: every call of run and runNamed that created a temporary
\* directory has removed it when the call exits, on every exit path (result
\* returned or fault raised, script written or not, log written or not),
\* whenever removing it is possible at all.
C11_TempDirRemovedOnEveryExit ==
    (lastRun # <<>> /\ lastRun[1].created /\ lastRun[1].env.rmtree) =>
        lastRun[1].tmp = 0

\* C12 as stated: a call of run or runNamed whose log write fails raises
\* nothing and returns the result the same call returns when the log write
\* succeeds.
C12_LogFailureSwallowed ==
    (lastRun # <<>> /\ lastRun[1].logTried /\ ~lastRun[1].env.logwrite) =>
        /\ ~lastRun[1].raised
        /\ ~lastRun[1].twin.raised
        /\ lastRun[1].result = lastRun[1].twin.result

\* The child of the latest call was started and ended within the timeout.
ChildCompleted ==
    /\ lastRun # <<>>
    /\ lastRun[1].logTried
    /\ lastRun[1].env.spawn
    /\ IF lastRun[1].api = "run"
       THEN lastRun[1].env.write /\ lastRun[1].env.dur <= SnippetTimeout
       ELSE lastRun[1].env.dur <= ProjectTimeout

\* C17 as stated: when the child completes within the timeout, run and
\* runNamed return ok = true, the whole merged output of the child (not
\* capped) and an elapsed value.
C17_CompletedChildReturnsOutput ==
    ChildCompleted =>
        /\ ~lastRun[1].raised
        /\ lastRun[1].result[1].ok
        /\ lastRun[1].result[1].output = lastRun[1].env.outlen
        /\ "elapsed" \in DOMAIN lastRun[1].result[1]

\* -------------------------------------------------- pending queue properties
\* C16 as stated: in every state reached through submissions and approvals,
\* the removal of a descriptor failing included, every descriptor in the
\* pending directory references a code file that is there.  (No approval
\* that takes the code file away returns a failure, so the exception the
\* claim allows never applies.)
C16_DescriptorNeverOutlivesCode ==
    \A d \in DOMAIN descriptors :
        /\ descriptors[d].code_full_path # <<>>
        /\ descriptors[d].code_full_path[1] \in pendingCode

\* --------------------------------------------------------- store properties
\* C23 as stated: once save_project(name, code) has been called,
\* run_project_by_name(name) with the same name finds the saved project: it
\* does not return the "not found" error.
C23_SaveThenRunFindsProject ==
    (/\ lastRun # <<>>
     /\ lastRun[1].api = "runNamed"
     /\ lastRun[1].wasSaved)
    => /\ ~lastRun[1].raised
       /\ Get(lastRun[1].result[1], "error") # <<"not found">>

====
